---- MODULE Spec2Model ----
(***************************************************************************)
(* Model of the option payoff calculator: the payoff evaluator             *)
(* (calculatePortfolioValueAtExpiration), the curve analyzer               *)
(* (findKeyPointsOnCurve), the page script's processInput with the        *)
(* globals it fills, the slider handler updateChartWithSlider that reads   *)
(* them, and the live-data switch, in the variants the repository          *)
(* contains.                                                               *)
(*                                                                         *)
(* Numbers.  Prices and values are fixed-point: one model unit is          *)
(* 1/(100*SubCent) dollar, so one cent is SubCent units and toFixed(2)     *)
(* rounds to the nearest multiple of SubCent.  Arithmetic is exact; the    *)
(* binary rounding error of IEEE doubles is not modelled.                  *)
(***************************************************************************)
EXTENDS Integers, Sequences, FiniteSets, TLC

VARIABLES
    pc,                 \* position of the running call
    impl,               \* source variant executing the call
    optionsPositions,   \* evaluator argument: [isArray, items]
    minPrice,           \* evaluator argument
    maxPrice,           \* evaluator argument
    priceStep,          \* evaluator argument
    closingPrice,       \* evaluator loop variable (unrounded swept price)
    valueCurve,         \* evaluator local array / returned curve
    error,              \* the Error thrown, "none" when none
    curve,              \* analyzer argument valueCurve
    cost,               \* analyzer argument
    keyPoints,          \* analyzer local array / returned list
    i,                  \* analyzer loop index (0-based, as in the source)
    trend,              \* analyzer: tracked trend
    lastNonFlatPoint,   \* analyzer: <<>> for null, else <<point>>
    processedJSON,      \* page script: the input of the last processInput
    fullOptionArray,    \* global: the entered options, uncombined, in order
    combinedOptionMap,  \* global: the combined options, in insertion order
    fullCost,           \* global
    fullMinStrike,      \* global
    fullMaxStrike,      \* global
    fullStrikeIncrement, \* global
    liveDataEnabled,    \* global: live data switched on
    currentSymbol,      \* global: "" until a symbol is chosen
    liveDataInterval,   \* global: NoTimer for null, else the id of a timer
    timers,             \* the browser's active interval timers, by id
    nextTimerId         \* the id the next setInterval returns

evalVars == <<optionsPositions, minPrice, maxPrice, priceStep,
              closingPrice, valueCurve, error>>

anVars == <<curve, cost, keyPoints, i, trend, lastNonFlatPoint>>

globalVars == <<fullOptionArray, combinedOptionMap, fullCost,
                fullMinStrike, fullMaxStrike, fullStrikeIncrement>>

uiVars == <<processedJSON, fullOptionArray, combinedOptionMap, fullCost,
            fullMinStrike, fullMaxStrike, fullStrikeIncrement>>

liveVars == <<liveDataEnabled, currentSymbol, liveDataInterval, timers, nextTimerId>>

vars == <<pc, impl, optionsPositions, minPrice, maxPrice, priceStep,
          closingPrice, valueCurve, error,
          curve, cost, keyPoints, i, trend, lastNonFlatPoint,
          processedJSON, fullOptionArray, combinedOptionMap, fullCost,
          fullMinStrike, fullMaxStrike, fullStrikeIncrement,
          liveDataEnabled, currentSymbol, liveDataInterval, timers, nextTimerId>>

----------------------------------------------------------------------------
(* Bounds of the model *)

SubCent == 5
MaxLegs == 2
MaxQty == 2
MaxPrice == 12
MaxStep == 6
MaxLen == 5
MaxValue == 2
MaxEntries == 3
MaxTimers == 3

(* Program constants *)

DefaultContractMultiplier == 100

\* option.qty || 1
DefaultQty == 1

\* fullStrikeIncrement = processedJSON.inc || 10, in dollars
DefaultIncrement == 10

\* fullMinStrike = minStrikeProvided - 50, in dollars
RangeMargin == 50

\* strike: null of a standalone cost adjustment; no parsed strike (\d+) is
\* negative
NullStrike == -1

----------------------------------------------------------------------------
(* Arithmetic helpers *)

Abs(x) == IF x < 0 THEN -x ELSE x

Max(a, b) == IF a >= b THEN a ELSE b

Dollar == 100 * SubCent

toFixed2Floor(x) ==
    LET a == Abs(x)
        r == (a \div SubCent) * SubCent
    IN  IF x < 0 THEN -r ELSE r

\* Number.prototype.toFixed(2) followed by parseFloat: the nearest multiple
\* of one cent, a tie rounded away from zero.
toFixed2(x) ==
    LET a == Abs(x)
        q == a \div SubCent
        m == a % SubCent
        r == IF 2 * m >= SubCent THEN (q + 1) * SubCent ELSE q * SubCent
    IN  IF x < 0 THEN -r ELSE r

----------------------------------------------------------------------------
(* Option legs.  A leg is a record with type, strike and qty, and with a   *)
(* contractMultiplier field only when the caller supplied one.             *)

HasMultiplier(leg) == "contractMultiplier" \in DOMAIN leg

\* Math.max(0, closingPrice - strike) for a call, Math.max(0, strike -
\* closingPrice) for a put.
IntrinsicValuePerShare(type, strike, P) ==
    IF type = "c" THEN Max(0, P - strike) ELSE Max(0, strike - P)

\* const { type, strike, qty = 1, contractMultiplier = 100 } = optionConfig
ContractMultiplierOf(leg) ==
    IF HasMultiplier(leg) THEN leg.contractMultiplier
    ELSE DefaultContractMultiplier

OcLegValueAbsQty(leg, P) ==
    IntrinsicValuePerShare(leg.type, leg.strike, P)
        * ContractMultiplierOf(leg) * Abs(leg.qty)

\* legValue = intrinsicValuePerShare * contractMultiplier * qty
OcLegValue(leg, P) ==
    IntrinsicValuePerShare(leg.type, leg.strike, P)
        * ContractMultiplierOf(leg) * leg.qty

\* if (!['c', 'p'].includes(type)) throw; if (strike <= 0 || qty === 0) throw
OcLegError(leg) ==
    IF leg.type \notin {"c", "p"} THEN "type"
    ELSE IF leg.strike <= 0 \/ leg.qty = 0 THEN "strikeqty"
    ELSE "none"

RECURSIVE OcInnerLazy(_, _, _, _)
OcInnerLazy(legs, k, P, acc) ==
    IF k > Len(legs) THEN [threw |-> "none", total |-> acc]
    ELSE IF IntrinsicValuePerShare(legs[k].type, legs[k].strike, P) = 0
         THEN OcInnerLazy(legs, k + 1, P, acc)
    ELSE IF OcLegError(legs[k]) # "none"
         THEN [threw |-> OcLegError(legs[k]), total |-> acc]
         ELSE OcInnerLazy(legs, k + 1, P, acc + OcLegValue(legs[k], P))

\* The inner loop of the validating variant: legs in input order, the first
\* invalid leg throws; otherwise the sum of the leg values.
RECURSIVE OcInner(_, _, _, _)
OcInner(legs, k, P, acc) ==
    IF k > Len(legs) THEN [threw |-> "none", total |-> acc]
    ELSE IF OcLegError(legs[k]) # "none"
         THEN [threw |-> OcLegError(legs[k]), total |-> acc]
         ELSE OcInner(legs, k + 1, P, acc + OcLegValue(legs[k], P))

\* chart.js: a call adds callIntrinsicValue * qty * 100, a put adds
\* putIntrinsicValue * qty * 100, any other type adds nothing.
ChartLegValue(leg, P) ==
    IF leg.type = "c" THEN Max(0, P - leg.strike) * leg.qty * DefaultContractMultiplier
    ELSE IF leg.type = "p" THEN Max(0, leg.strike - P) * leg.qty * DefaultContractMultiplier
    ELSE 0

RECURSIVE ChartInner(_, _, _, _)
ChartInner(legs, k, P, acc) ==
    IF k > Len(legs) THEN acc
    ELSE ChartInner(legs, k + 1, P, acc + ChartLegValue(legs[k], P))

\* valueCurve.push({closingPrice: parseFloat(closingPrice.toFixed(2)),
\*                  totalIntrinsicValue: parseFloat(total.toFixed(2))})
ValuePoint(P, total) ==
    [closingPrice |-> toFixed2(P), totalIntrinsicValue |-> toFixed2(total)]

----------------------------------------------------------------------------
(* Preconditions and loop control of the evaluator *)

\* !Array.isArray(optionsPositions) || optionsPositions.length === 0
PositionsInvalid(op) == ~op.isArray \/ Len(op.items) = 0

RangeInvalidStrict(lo, hi) == lo > hi

\* minPrice >= maxPrice
RangeInvalid(lo, hi) == lo >= hi

\* priceStep <= 0
StepInvalid(step) == step <= 0

SweepContinuesExclusive(P, hi) == P < hi

\* loop condition: closingPrice <= maxPrice
SweepContinues(P, hi) == P <= hi

NextPriceHalfStep(P, step) == P + (step + 1) \div 2

\* loop increment: closingPrice += priceStep
NextPrice(P, step) == P + step

----------------------------------------------------------------------------
(* Inputs of the evaluator *)

StrikeSet == {SubCent + 1, 2 * SubCent}

QtySet == (-1 .. MaxQty) \ {0}

MultiplierSet == {1, DefaultContractMultiplier \div 2}

PlainLegs ==
    {[type |-> t, strike |-> s, qty |-> q] :
        t \in {"c", "p"}, s \in StrikeSet, q \in QtySet}

\* legs with a multiplier of their own, long and short
MultiplierLegs ==
    {[type |-> t, strike |-> s, qty |-> q, contractMultiplier |-> m] :
        t \in {"c", "p"}, s \in StrikeSet, q \in {-1, 1}, m \in MultiplierSet}

\* legs the data model forbids: a foreign type, a non-positive strike, a
\* zero quantity
InvalidLegs ==
    { [type |-> "x", strike |-> 2 * SubCent, qty |-> 1],
      [type |-> "c", strike |-> 0, qty |-> 1],
      [type |-> "p", strike |-> -SubCent, qty |-> 1],
      [type |-> "c", strike |-> SubCent + 1, qty |-> 0] }

LegDomain == PlainLegs \cup MultiplierLegs \cup InvalidLegs

RECURSIVE SeqsUpTo(_, _)
SeqsUpTo(S, n) ==
    IF n = 0 THEN {<<>>}
    ELSE LET shorter == SeqsUpTo(S, n - 1)
         IN  shorter \cup {Append(q, x) : q \in {r \in shorter : Len(r) = n - 1}, x \in S}

ArrayOf(items) == [isArray |-> TRUE, items |-> items]

NotAnArray == [isArray |-> FALSE, items |-> <<>>]

\* every sweep of the bounded price grid, a few leg lists
SweepFamily ==
    [op : {NotAnArray, ArrayOf(<<>>),
           ArrayOf(<<[type |-> "c", strike |-> SubCent + 1, qty |-> 1]>>),
           ArrayOf(<<[type |-> "p", strike |-> 2 * SubCent, qty |-> -1],
                     [type |-> "c", strike |-> SubCent + 1, qty |-> 2]>>)},
     lo : 0 .. MaxStep,
     hi : 0 .. MaxPrice,
     step : -1 .. MaxStep]

\* every leg list of the bounded leg domain, two sweeps (one on the cent
\* grid, one off it)
LegFamily ==
    [op : {ArrayOf(L) : L \in SeqsUpTo(LegDomain, MaxLegs)},
     lo : {0}, hi : {3 * SubCent}, step : {SubCent}]
    \cup
    [op : {ArrayOf(L) : L \in SeqsUpTo(LegDomain, MaxLegs)},
     lo : {1}, hi : {2 * SubCent + 2}, step : {SubCent - 1}]

\* the worked examples of the specification
ExampleLegs4 ==
    << [type |-> "c", strike |-> 720 * Dollar, qty |-> 1],
       [type |-> "c", strike |-> 740 * Dollar, qty |-> 1],
       [type |-> "p", strike |-> 860 * Dollar, qty |-> -1],
       [type |-> "p", strike |-> 820 * Dollar, qty |-> -1] >>

ExampleLongCall == << [type |-> "c", strike |-> 100 * Dollar, qty |-> 1] >>

ExampleFamily ==
    { [op |-> ArrayOf(ExampleLegs4), lo |-> 700 * Dollar, hi |-> 900 * Dollar,
       step |-> 50 * Dollar],
      [op |-> ArrayOf(ExampleLongCall), lo |-> 90 * Dollar, hi |-> 110 * Dollar,
       step |-> 10 * Dollar] }

EvalInputs == SweepFamily \cup LegFamily \cup ExampleFamily

EvaluatorImpls == {"chart", "oc"}

AnalyzerIdle ==
    /\ curve = <<>>
    /\ cost = 0
    /\ keyPoints = <<>>
    /\ i = 0
    /\ trend = "null"
    /\ lastNonFlatPoint = <<>>

\* the text that JSON.parse rejects; also the value before the first call
UnparseableJSON == [parses |-> FALSE]

\* the page script before its first processInput: the globals as declared
UiIdle ==
    /\ processedJSON = UnparseableJSON
    /\ fullOptionArray = <<>>
    /\ combinedOptionMap = <<>>
    /\ fullCost = 0
    /\ fullMinStrike = 0
    /\ fullMaxStrike = 0
    /\ fullStrikeIncrement = 0

\* liveDataInterval = null
NoTimer == 0

\* let currentSymbol = ''; let liveDataEnabled = false;
\* let liveDataInterval = null; no timer is set
LiveIdle ==
    /\ liveDataEnabled = FALSE
    /\ currentSymbol = ""
    /\ liveDataInterval = NoTimer
    /\ timers = {}
    /\ nextTimerId = 1

InitEvaluator ==
    /\ pc = "eval_call"
    /\ impl \in EvaluatorImpls
    /\ \E inp \in EvalInputs :
          /\ optionsPositions = inp.op
          /\ minPrice = inp.lo
          /\ maxPrice = inp.hi
          /\ priceStep = inp.step
    /\ closingPrice = 0
    /\ valueCurve = <<>>
    /\ error = "none"
    /\ AnalyzerIdle
    /\ UiIdle
    /\ LiveIdle

----------------------------------------------------------------------------
(* calculatePortfolioValueAtExpiration *)

\* the three precondition checks, in source order
EvalEnter ==
    /\ pc = "eval_call"
    /\ IF PositionsInvalid(optionsPositions)
         THEN pc' = "eval_error" /\ error' = "positions" /\ UNCHANGED closingPrice
       ELSE IF RangeInvalid(minPrice, maxPrice)
         THEN pc' = "eval_error" /\ error' = "range" /\ UNCHANGED closingPrice
       ELSE IF StepInvalid(priceStep)
         THEN pc' = "eval_error" /\ error' = "step" /\ UNCHANGED closingPrice
       ELSE pc' = "eval_loop" /\ closingPrice' = minPrice /\ UNCHANGED error
    /\ UNCHANGED <<impl, optionsPositions, minPrice, maxPrice, priceStep, valueCurve>>
    /\ UNCHANGED anVars
    /\ UNCHANGED uiVars
    /\ UNCHANGED liveVars

\* one iteration of the sweep loop, chart.js: no leg is validated
ChartEvalIter ==
    /\ pc = "eval_loop"
    /\ impl = "chart"
    /\ SweepContinues(closingPrice, maxPrice)
    /\ valueCurve' = Append(valueCurve,
            ValuePoint(closingPrice, ChartInner(optionsPositions.items, 1, closingPrice, 0)))
    /\ closingPrice' = NextPrice(closingPrice, priceStep)
    /\ UNCHANGED <<pc, impl, optionsPositions, minPrice, maxPrice, priceStep, error>>
    /\ UNCHANGED anVars
    /\ UNCHANGED uiVars
    /\ UNCHANGED liveVars

\* one iteration of the sweep loop, oc.js: every leg is validated on every
\* iteration and the first invalid one throws
OcEvalIter ==
    /\ pc = "eval_loop"
    /\ impl = "oc"
    /\ SweepContinues(closingPrice, maxPrice)
    /\ LET r == OcInner(optionsPositions.items, 1, closingPrice, 0)
       IN  IF r.threw # "none"
           THEN /\ pc' = "eval_error"
                /\ error' = r.threw
                /\ UNCHANGED <<valueCurve, closingPrice>>
           ELSE /\ valueCurve' = Append(valueCurve, ValuePoint(closingPrice, r.total))
                /\ closingPrice' = NextPrice(closingPrice, priceStep)
                /\ UNCHANGED <<pc, error>>
    /\ UNCHANGED <<impl, optionsPositions, minPrice, maxPrice, priceStep>>
    /\ UNCHANGED anVars
    /\ UNCHANGED uiVars
    /\ UNCHANGED liveVars

\* the loop condition fails: return valueCurve
EvalReturn ==
    /\ pc = "eval_loop"
    /\ ~SweepContinues(closingPrice, maxPrice)
    /\ pc' = "eval_done"
    /\ UNCHANGED <<impl, optionsPositions, minPrice, maxPrice, priceStep,
                   closingPrice, valueCurve, error>>
    /\ UNCHANGED anVars
    /\ UNCHANGED uiVars
    /\ UNCHANGED liveVars

----------------------------------------------------------------------------
(* The evaluator as a function of its arguments: the same checks, loop     *)
(* condition, loop body and increment as the actions above.                *)

RECURSIVE ChartSweep(_, _, _, _, _)
ChartSweep(legs, P, hi, step, acc) ==
    IF ~SweepContinues(P, hi) THEN [threw |-> "none", curve |-> acc]
    ELSE ChartSweep(legs, NextPrice(P, step), hi, step,
                    Append(acc, ValuePoint(P, ChartInner(legs, 1, P, 0))))

RECURSIVE OcSweep(_, _, _, _, _)
OcSweep(legs, P, hi, step, acc) ==
    IF ~SweepContinues(P, hi) THEN [threw |-> "none", curve |-> acc]
    ELSE LET r == OcInner(legs, 1, P, 0)
         IN  IF r.threw # "none" THEN [threw |-> r.threw, curve |-> <<>>]
             ELSE OcSweep(legs, NextPrice(P, step), hi, step,
                          Append(acc, ValuePoint(P, r.total)))

calculatePortfolioValueAtExpiration(variant, op, lo, hi, step) ==
    IF PositionsInvalid(op) THEN [threw |-> "positions", curve |-> <<>>]
    ELSE IF RangeInvalid(lo, hi) THEN [threw |-> "range", curve |-> <<>>]
    ELSE IF StepInvalid(step) THEN [threw |-> "step", curve |-> <<>>]
    ELSE IF variant = "chart" THEN ChartSweep(op.items, lo, hi, step, <<>>)
    ELSE OcSweep(op.items, lo, hi, step, <<>>)

----------------------------------------------------------------------------
(* Key points.  A key point's closingPrice is a rational [num, den] in     *)
(* lowest terms, because the interpolated crossing price of the            *)
(* interpolating variant need not be a whole number of model units.        *)

RECURSIVE Gcd(_, _)
Gcd(a, b) == IF b = 0 THEN a ELSE Gcd(b, a % b)

Rat(n, d) ==
    LET g == Gcd(Abs(n), d)
    IN  [num |-> n \div g, den |-> d \div g]

FromInt(n) == [num |-> n, den |-> 1]

\* a.closingPrice - b.closingPrice < 0
RatLess(a, b) == a.num * b.den < b.num * a.den

KeyPoint(type, price, value, description) ==
    [type |-> type, closingPrice |-> price, totalIntrinsicValue |-> value,
     description |-> description]

\* a key point placed on a point of the curve
KeyPointAt(type, point, description) ==
    KeyPoint(type, FromInt(point.closingPrice), point.totalIntrinsicValue, description)

TooShortLax(c) == Len(c) < 2

\* valueCurve.length < 3
TooShort(c) == Len(c) < 3

----------------------------------------------------------------------------
(* findKeyPointsOnCurve, chart.js *)

\* the first point differs from the second: push 'Curve Start'
ChartStartPoints(c, k) ==
    IF c[1].totalIntrinsicValue - k # c[2].totalIntrinsicValue - k
    THEN <<KeyPointAt("curve_endpoint", c[1], "Curve Start")>>
    ELSE <<>>

\* the last point differs from the second-to-last: push 'Curve End'
ChartEndPoints(c, k) ==
    IF c[Len(c)].totalIntrinsicValue - k # c[Len(c) - 1].totalIntrinsicValue - k
    THEN <<KeyPointAt("curve_endpoint", c[Len(c)], "Curve End")>>
    ELSE <<>>

ChartTrendOfMagnitude(prevValue, currentValue) ==
    IF Abs(currentValue) > Abs(prevValue) THEN "up"
    ELSE IF Abs(currentValue) < Abs(prevValue) THEN "down"
    ELSE "flat"

\* "Determine current trend"
ChartTrend(prevValue, currentValue) ==
    IF currentValue > prevValue THEN "up"
    ELSE IF currentValue < prevValue THEN "down"
    ELSE "flat"

ChartTurnPointsAfterFlatFirst(tr, currentTrend, prev, lastNonFlat) ==
    IF tr = "flat" /\ currentTrend # "flat" /\ lastNonFlat # <<>>
        THEN <<KeyPointAt(IF currentTrend = "up" THEN "low_point" ELSE "high_point",
                          lastNonFlat[1],
                          IF currentTrend = "up" THEN "Low point (after flat)"
                          ELSE "High point (after flat)")>>
    ELSE IF tr # "up" /\ currentTrend = "up"
        THEN <<KeyPointAt("low_point", prev, "Low point")>>
    ELSE IF tr # "down" /\ currentTrend = "down"
        THEN <<KeyPointAt("high_point", prev, "High point")>>
    ELSE <<>>

\* "Handle trend changes": the key points pushed when trend # currentTrend
ChartTurnPoints(tr, currentTrend, prev, lastNonFlat) ==
    IF tr # "up" /\ currentTrend = "up"
        THEN <<KeyPointAt("low_point", prev, "Low point")>>
    ELSE IF tr # "down" /\ currentTrend = "down"
        THEN <<KeyPointAt("high_point", prev, "High point")>>
    ELSE IF tr = "flat" /\ currentTrend # "flat"
        THEN IF lastNonFlat # <<>>
             THEN <<KeyPointAt(IF currentTrend = "up" THEN "low_point" ELSE "high_point",
                               lastNonFlat[1],
                               IF currentTrend = "up" THEN "Low point (after flat)"
                               ELSE "High point (after flat)")>>
             ELSE <<>>
    ELSE <<>>

ChartCrossesInclusive(prevValue, currentValue) ==
    (prevValue <= 0 /\ currentValue >= 0) \/ (prevValue >= 0 /\ currentValue <= 0)

\* "Check for zero crossing"
ChartCrosses(prevValue, currentValue) ==
    (prevValue < 0 /\ currentValue >= 0) \/ (prevValue > 0 /\ currentValue <= 0)

ChartCrossPoints(prevValue, currentValue, current) ==
    IF ChartCrosses(prevValue, currentValue)
    THEN <<KeyPointAt("zero_crossing", current, "Break-even")>>
    ELSE <<>>

\* loop condition of the walk: i < valueCurve.length - 1
ChartWalkContinues(idx, c) == idx < Len(c) - 1

ChartAnEnter ==
    /\ pc = "an_call"
    /\ impl = "chart"
    /\ IF TooShort(curve)
       THEN /\ pc' = "an_done"
            /\ UNCHANGED <<keyPoints, i, trend, lastNonFlatPoint>>
       ELSE /\ pc' = "an_walk"
            /\ keyPoints' = ChartStartPoints(curve, cost)
            /\ i' = 1
            /\ trend' = "null"
            /\ lastNonFlatPoint' = <<>>
    /\ UNCHANGED <<impl, curve, cost>>
    /\ UNCHANGED evalVars
    /\ UNCHANGED uiVars
    /\ UNCHANGED liveVars

\* one iteration of the walk; the source's valueCurve[i] is curve[i + 1]
ChartAnIter ==
    /\ pc = "an_walk"
    /\ impl = "chart"
    /\ ChartWalkContinues(i, curve)
    /\ LET prev == curve[i]
           current == curve[i + 1]
           prevValue == prev.totalIntrinsicValue - cost
           currentValue == current.totalIntrinsicValue - cost
           currentTrend == ChartTrend(prevValue, currentValue)
           turn == IF trend # currentTrend
                   THEN ChartTurnPoints(trend, currentTrend, prev, lastNonFlatPoint)
                   ELSE <<>>
       IN  /\ keyPoints' = keyPoints \o turn
                              \o ChartCrossPoints(prevValue, currentValue, current)
           /\ trend' = currentTrend
           /\ lastNonFlatPoint' =
                 IF currentTrend # "flat" THEN <<current>> ELSE lastNonFlatPoint
    /\ i' = i + 1
    /\ UNCHANGED <<pc, impl, curve, cost>>
    /\ UNCHANGED evalVars
    /\ UNCHANGED uiVars
    /\ UNCHANGED liveVars

\* the walk is over: check the last point and return keyPoints
ChartAnFinish ==
    /\ pc = "an_walk"
    /\ impl = "chart"
    /\ ~ChartWalkContinues(i, curve)
    /\ keyPoints' = keyPoints \o ChartEndPoints(curve, cost)
    /\ pc' = "an_done"
    /\ UNCHANGED <<impl, curve, cost, i, trend, lastNonFlatPoint>>
    /\ UNCHANGED evalVars
    /\ UNCHANGED uiVars
    /\ UNCHANGED liveVars

----------------------------------------------------------------------------
(* findKeyPointsOnCurve, the interpolating variant (part_000:1193) *)

\* "Check for zero crossing (sign change in profit/loss)"
P0Crosses(currentProfitLoss, nextProfitLoss) ==
    (currentProfitLoss <= 0 /\ nextProfitLoss >= 0)
        \/ (currentProfitLoss >= 0 /\ nextProfitLoss <= 0)

P0CrossingPriceBeyond(current, next, currentProfitLoss, nextProfitLoss) ==
    LET d == Abs(nextProfitLoss - currentProfitLoss)
    IN  Rat(current.closingPrice * d
              + (next.closingPrice - current.closingPrice)
                    * (d + Abs(currentProfitLoss)), d)

\* ratio = |currentProfitLoss| / |nextProfitLoss - currentProfitLoss|;
\* crossingPrice = current.closingPrice
\*                 + (next.closingPrice - current.closingPrice) * ratio
P0CrossingPrice(current, next, currentProfitLoss, nextProfitLoss) ==
    LET d == Abs(nextProfitLoss - currentProfitLoss)
    IN  Rat(current.closingPrice * d
              + (next.closingPrice - current.closingPrice) * Abs(currentProfitLoss), d)

P0CrossPoints(current, next, k) ==
    LET currentProfitLoss == current.totalIntrinsicValue - k
        nextProfitLoss == next.totalIntrinsicValue - k
    IN  IF P0Crosses(currentProfitLoss, nextProfitLoss)
           /\ currentProfitLoss # nextProfitLoss
        THEN <<KeyPoint("zero_crossing",
                        P0CrossingPrice(current, next, currentProfitLoss, nextProfitLoss),
                        k, "Break Even")>>
        ELSE <<>>

\* currentDiff > 0 ? 'up' : (currentDiff < 0 ? 'down' : null)
P0Trend(currentDiff) ==
    IF currentDiff > 0 THEN "up" ELSE IF currentDiff < 0 THEN "down" ELSE "null"

\* "Check for trend change"
P0TurnPoints(tr, currentTrend, turningPoint) ==
    IF tr # "null" /\ currentTrend # "null" /\ currentTrend # tr
    THEN IF tr = "down" /\ currentTrend = "up"
            THEN <<KeyPointAt("low_point", turningPoint, "Low Point")>>
         ELSE IF tr = "up" /\ currentTrend = "down"
            THEN <<KeyPointAt("high_point", turningPoint, "High Point")>>
         ELSE <<>>
    ELSE <<>>

\* "Handle flat period ending and starting to trend"
P0AfterFlatPoints(tr, currentTrend, lastNonFlat) ==
    IF tr = "null" /\ currentTrend # "null" /\ lastNonFlat # <<>>
    THEN IF currentTrend = "up"
            THEN <<KeyPointAt("low_point", lastNonFlat[1], "Low Point")>>
         ELSE IF currentTrend = "down"
            THEN <<KeyPointAt("high_point", lastNonFlat[1], "High Point")>>
         ELSE <<>>
    ELSE <<>>

\* keyPoints.sort((a, b) => a.closingPrice - b.closingPrice): a stable sort,
\* written as insertion behind the last element that is not greater
RECURSIVE InsertSortedBeforeEqual(_, _)
InsertSortedBeforeEqual(sorted, kp) ==
    IF sorted = <<>> THEN <<kp>>
    ELSE IF ~RatLess(sorted[Len(sorted)].closingPrice, kp.closingPrice)
         THEN Append(InsertSortedBeforeEqual(SubSeq(sorted, 1, Len(sorted) - 1), kp),
                     sorted[Len(sorted)])
         ELSE Append(sorted, kp)

RECURSIVE InsertSorted(_, _)
InsertSorted(sorted, kp) ==
    IF sorted = <<>> THEN <<kp>>
    ELSE IF RatLess(kp.closingPrice, sorted[Len(sorted)].closingPrice)
         THEN Append(InsertSorted(SubSeq(sorted, 1, Len(sorted) - 1), kp),
                     sorted[Len(sorted)])
         ELSE Append(sorted, kp)

RECURSIVE SortByClosingPrice(_)
SortByClosingPrice(kps) ==
    IF kps = <<>> THEN <<>>
    ELSE InsertSorted(SortByClosingPrice(SubSeq(kps, 1, Len(kps) - 1)), kps[Len(kps)])

P0AnEnter ==
    /\ pc = "an_call"
    /\ impl = "part_000"
    /\ IF TooShort(curve)
       THEN pc' = "an_done" /\ UNCHANGED i
       ELSE pc' = "an_cross" /\ i' = 0
    /\ UNCHANGED <<impl, curve, cost, keyPoints, trend, lastNonFlatPoint>>
    /\ UNCHANGED evalVars
    /\ UNCHANGED uiVars
    /\ UNCHANGED liveVars

\* one iteration of the zero-crossing loop: the segment from the source's
\* valueCurve[i] to valueCurve[i + 1]
P0CrossIter ==
    /\ pc = "an_cross"
    /\ i < Len(curve) - 1
    /\ keyPoints' = keyPoints \o P0CrossPoints(curve[i + 1], curve[i + 2], cost)
    /\ i' = i + 1
    /\ UNCHANGED <<pc, impl, curve, cost, trend, lastNonFlatPoint>>
    /\ UNCHANGED evalVars
    /\ UNCHANGED uiVars
    /\ UNCHANGED liveVars

\* the zero-crossing loop is over: start the trend loop at i = 1
P0CrossExit ==
    /\ pc = "an_cross"
    /\ ~(i < Len(curve) - 1)
    /\ pc' = "an_trend"
    /\ i' = 1
    /\ trend' = "null"
    /\ lastNonFlatPoint' = <<>>
    /\ UNCHANGED <<impl, curve, cost, keyPoints>>
    /\ UNCHANGED evalVars
    /\ UNCHANGED uiVars
    /\ UNCHANGED liveVars

\* one iteration of the trend loop
P0TrendIter ==
    /\ pc = "an_trend"
    /\ i < Len(curve)
    /\ LET prev == curve[i]
           current == curve[i + 1]
           currentDiff == current.totalIntrinsicValue - prev.totalIntrinsicValue
           currentTrend == P0Trend(currentDiff)
       IN  /\ keyPoints' = keyPoints
                    \o P0TurnPoints(trend, currentTrend, prev)
                    \o P0AfterFlatPoints(trend, currentTrend, lastNonFlatPoint)
           /\ IF currentTrend # "null"
              THEN trend' = currentTrend /\ lastNonFlatPoint' = <<current>>
              ELSE UNCHANGED <<trend, lastNonFlatPoint>>
    /\ i' = i + 1
    /\ UNCHANGED <<pc, impl, curve, cost>>
    /\ UNCHANGED evalVars
    /\ UNCHANGED uiVars
    /\ UNCHANGED liveVars

P0SortReturnReversingCurve ==
    /\ pc = "an_trend"
    /\ ~(i < Len(curve))
    /\ curve' = [k \in 1 .. Len(curve) |-> curve[Len(curve) + 1 - k]]
    /\ keyPoints' = SortByClosingPrice(keyPoints)
    /\ pc' = "an_done"
    /\ UNCHANGED <<impl, cost, i, trend, lastNonFlatPoint>>
    /\ UNCHANGED evalVars
    /\ UNCHANGED uiVars
    /\ UNCHANGED liveVars

\* the trend loop is over: sort and return
P0SortReturn ==
    /\ pc = "an_trend"
    /\ ~(i < Len(curve))
    /\ keyPoints' = SortByClosingPrice(keyPoints)
    /\ pc' = "an_done"
    /\ UNCHANGED <<impl, curve, cost, i, trend, lastNonFlatPoint>>
    /\ UNCHANGED evalVars
    /\ UNCHANGED uiVars
    /\ UNCHANGED liveVars

----------------------------------------------------------------------------
(* The analyzer as a function of its arguments: the same entry check,      *)
(* loops and loop bodies as the actions above.                             *)

RECURSIVE ChartWalk(_, _, _, _, _, _)
ChartWalk(c, k, idx, tr, lastNonFlat, acc) ==
    IF ~ChartWalkContinues(idx, c) THEN acc \o ChartEndPoints(c, k)
    ELSE LET prev == c[idx]
             current == c[idx + 1]
             prevValue == prev.totalIntrinsicValue - k
             currentValue == current.totalIntrinsicValue - k
             currentTrend == ChartTrend(prevValue, currentValue)
             turn == IF tr # currentTrend
                     THEN ChartTurnPoints(tr, currentTrend, prev, lastNonFlat)
                     ELSE <<>>
         IN  ChartWalk(c, k, idx + 1, currentTrend,
                       IF currentTrend # "flat" THEN <<current>> ELSE lastNonFlat,
                       acc \o turn \o ChartCrossPoints(prevValue, currentValue, current))

RECURSIVE P0CrossLoop(_, _, _, _)
P0CrossLoop(c, k, idx, acc) ==
    IF ~(idx < Len(c) - 1) THEN acc
    ELSE P0CrossLoop(c, k, idx + 1, acc \o P0CrossPoints(c[idx + 1], c[idx + 2], k))

RECURSIVE P0TrendLoop(_, _, _, _, _)
P0TrendLoop(c, idx, tr, lastNonFlat, acc) ==
    IF ~(idx < Len(c)) THEN acc
    ELSE LET prev == c[idx]
             current == c[idx + 1]
             currentDiff == current.totalIntrinsicValue - prev.totalIntrinsicValue
             currentTrend == P0Trend(currentDiff)
         IN  P0TrendLoop(c, idx + 1,
                         IF currentTrend # "null" THEN currentTrend ELSE tr,
                         IF currentTrend # "null" THEN <<current>> ELSE lastNonFlat,
                         acc \o P0TurnPoints(tr, currentTrend, prev)
                             \o P0AfterFlatPoints(tr, currentTrend, lastNonFlat))

findKeyPointsOnCurve(variant, c, k) ==
    IF TooShort(c) THEN <<>>
    ELSE IF variant = "chart"
         THEN ChartWalk(c, k, 1, "null", <<>>, ChartStartPoints(c, k))
    ELSE SortByClosingPrice(
             P0TrendLoop(c, 1, "null", <<>>, P0CrossLoop(c, k, 0, <<>>)))

----------------------------------------------------------------------------
(* Inputs of the analyzer: curves on a price grid, of every length up to   *)
(* MaxLen, with values and cost in 0 .. MaxValue, and the worked example.  *)

GridStep == 2 * SubCent

ValueSeqs == SeqsUpTo(0 .. MaxValue, MaxLen)

CurveOf(values) ==
    [k \in 1 .. Len(values) |->
        [closingPrice |-> k * GridStep, totalIntrinsicValue |-> values[k]]]

\* the worked example, in whole dollars (the analyzer is scale-free)
ExampleCurve ==
    << [closingPrice |-> 90, totalIntrinsicValue |-> 0],
       [closingPrice |-> 100, totalIntrinsicValue |-> 0],
       [closingPrice |-> 110, totalIntrinsicValue |-> 1000] >>

ExampleCost == 5 * 100

AnalyzerImpls == {"chart", "part_000"}

EvaluatorIdle ==
    /\ optionsPositions = NotAnArray
    /\ minPrice = 0
    /\ maxPrice = 0
    /\ priceStep = 0
    /\ closingPrice = 0
    /\ valueCurve = <<>>
    /\ error = "none"

InitAnalyzer ==
    /\ pc = "an_call"
    /\ impl \in AnalyzerImpls
    /\ \/ (\E v \in ValueSeqs : curve = CurveOf(v)) /\ cost \in 0 .. MaxValue
       \/ curve = ExampleCurve /\ cost = ExampleCost
    /\ keyPoints = <<>>
    /\ i = 0
    /\ trend = "null"
    /\ lastNonFlatPoint = <<>>
    /\ EvaluatorIdle
    /\ UiIdle
    /\ LiveIdle

----------------------------------------------------------------------------
(* processInput (part_000:415 and part_001:78).  An item of optionArray or *)
(* tempOptionArray is modelled by what the regular expressions and the     *)
(* typeof tests tell apart:                                                *)
(*   kind "option"     a string like 1c100 or, with a costAdjustment       *)
(*                     field, 1c100@2000                                   *)
(*   kind "adj"        a string like @2000                                 *)
(*   kind "malformed"  any other string                                    *)
(*   kind "object"     an object with type and strike, with qty if given   *)
(*   kind "other"      a value that is neither a string nor an object      *)
(* Amounts are in model units, so the dollar constants are scaled.         *)

\* match[2].toLowerCase()
toLowerCase(t) == IF t = "C" THEN "c" ELSE IF t = "P" THEN "p" ELSE t

\* a value that the conditions `option.type &&` and `!processedOption.type`
\* take for true
Truthy(t) == t # "" /\ t # "null"

NoOption == [qty |-> 0, type |-> "null", strike |-> NullStrike]

\* the helper processOptionString: part_000 knows cost adjustments,
\* part_001 does not
processOptionString(variant, str) ==
    IF variant = "part_000" THEN
        IF str.kind = "adj"
        THEN [threw |-> FALSE,
              option |-> [qty |-> 0, type |-> "null", strike |-> NullStrike,
                          costAdjustment |-> str.costAdjustment]]
        ELSE IF str.kind = "option"
        THEN [threw |-> FALSE,
              option |-> [qty |-> str.qty, type |-> toLowerCase(str.type),
                          strike |-> str.strike,
                          costAdjustment |->
                              IF "costAdjustment" \in DOMAIN str
                              THEN str.costAdjustment ELSE 0]]
        ELSE [threw |-> TRUE, option |-> NoOption]
    ELSE
        IF str.kind = "option" /\ "costAdjustment" \notin DOMAIN str
        THEN [threw |-> FALSE,
              option |-> [qty |-> str.qty, type |-> toLowerCase(str.type),
                          strike |-> str.strike]]
        ELSE [threw |-> TRUE, option |-> NoOption]

\* option.qty || 1
ObjectQty(option) ==
    IF "qty" \in DOMAIN option /\ option.qty # 0 THEN option.qty ELSE DefaultQty

\* the object built from an option object; part_000 adds costAdjustment
processOptionObject(variant, option) ==
    IF variant = "part_000"
    THEN [qty |-> ObjectQty(option), type |-> toLowerCase(option.type),
          strike |-> option.strike, costAdjustment |-> 0]
    ELSE [qty |-> ObjectQty(option), type |-> toLowerCase(option.type),
          strike |-> option.strike]

\* "Validate the processed option"
ObjectInvalid(variant, processedOption) ==
    IF variant = "part_000"
    THEN Truthy(processedOption.type) /\ processedOption.type \notin {"c", "p"}
    ELSE ~Truthy(processedOption.type) \/ processedOption.type \notin {"c", "p"}

\* one pass of the forEach over optionArray, up to the optionMap update
ProcessItem(variant, item) ==
    IF item.kind = "object"
    THEN LET processedOption == processOptionObject(variant, item)
         IN  [threw |-> ObjectInvalid(variant, processedOption),
              option |-> processedOption]
    ELSE IF item.kind = "other" THEN [threw |-> TRUE, option |-> NoOption]
    ELSE processOptionString(variant, item)

\* part_000: "Only add to optionMap if it's a real option"
IsRealOption(option) ==
    option.qty # 0 /\ Truthy(option.type) /\ option.strike # NullStrike

\* the Map key `${type}${strike}`
SameOptionKey(a, b) == a.type = b.type /\ a.strike = b.strike

\* optionMap.has(key) ? optionMap.get(key).qty += option.qty
\*                    : optionMap.set(key, option); a Map keeps the order of
\* first insertion
AddToMap(optionMap, option) ==
    IF \E k \in 1 .. Len(optionMap) : SameOptionKey(optionMap[k], option)
    THEN [k \in 1 .. Len(optionMap) |->
            IF SameOptionKey(optionMap[k], option)
            THEN [optionMap[k] EXCEPT !.qty = @ + option.qty]
            ELSE optionMap[k]]
    ELSE Append(optionMap, option)

\* the forEach over optionArray: the first item that throws ends it
RECURSIVE CombineItems(_, _, _, _, _)
CombineItems(variant, items, k, optionMap, totalCostAdjustment) ==
    IF k > Len(items)
    THEN [threw |-> FALSE, optionMap |-> optionMap,
          totalCostAdjustment |-> totalCostAdjustment]
    ELSE LET r == ProcessItem(variant, items[k])
         IN  IF r.threw
             THEN [threw |-> TRUE, optionMap |-> optionMap,
                   totalCostAdjustment |-> totalCostAdjustment]
             ELSE CombineItems(variant, items, k + 1,
                      IF variant = "part_001" \/ IsRealOption(r.option)
                      THEN AddToMap(optionMap, r.option) ELSE optionMap,
                      IF variant = "part_000"
                      THEN totalCostAdjustment + r.option.costAdjustment
                      ELSE totalCostAdjustment)

\* Array.from(optionMap.values()).filter(opt => opt.qty !== 0)
FilterNonZero(optionMap) == SelectSeq(optionMap, LAMBDA opt : opt.qty # 0)

\* the entry pushed to fullOptionArray for an item
FullOptionEntry(variant, item) ==
    IF item.kind = "object"
    THEN [qty |-> ObjectQty(item), type |-> toLowerCase(item.type),
          strike |-> item.strike]
    ELSE processOptionString(variant, item).option

\* tempOptionArray: strings go through processOptionString, objects are
\* pushed unvalidated, other values are skipped
TempThrows(variant, items) ==
    \E k \in 1 .. Len(items) :
        /\ items[k].kind \notin {"object", "other"}
        /\ processOptionString(variant, items[k]).threw

TempOptions(variant, items) ==
    LET pushed == SelectSeq(items, LAMBDA item : item.kind # "other")
    IN  [k \in 1 .. Len(pushed) |->
            IF pushed[k].kind = "object"
            THEN processOptionObject(variant, pushed[k])
            ELSE processOptionString(variant, pushed[k]).option]

\* strikes.filter(s => Number.isFinite(s))
FiniteStrikes(options) ==
    {options[k].strike : k \in {j \in 1 .. Len(options) :
                                    options[j].strike # NullStrike}}

MinOf(S) == CHOOSE x \in S : \A y \in S : x <= y

MaxOf(S) == CHOOSE x \in S : \A y \in S : x >= y

\* allOptionsMap: the combined options, then the temporary ones added or
\* combined
RECURSIVE AllOptions(_, _, _)
AllOptions(allOptionsMap, tempOptionArray, k) ==
    IF k > Len(tempOptionArray) THEN allOptionsMap
    ELSE AllOptions(AddToMap(allOptionsMap, tempOptionArray[k]), tempOptionArray, k + 1)

\* the evaluator a variant of the page script calls: part_000:643 calls
\* ChartModule (chart.js), part_001:280 the function of its own file
UiEvaluator(variant) == IF variant = "part_000" THEN "chart" ELSE "oc"

Globals ==
    [fullOptionArray |-> fullOptionArray,
     combinedOptionMap |-> combinedOptionMap,
     fullCost |-> fullCost,
     fullMinStrike |-> fullMinStrike,
     fullMaxStrike |-> fullMaxStrike,
     fullStrikeIncrement |-> fullStrikeIncrement]

\* the catch block: the globals as they are when the error is thrown
Caught(g, message) ==
    [error |-> message, globals |-> g, called |-> FALSE,
     legs |-> <<>>, data |-> <<>>]

\* the second evaluation, of optionArray and tempOptionArray together
CombinedDataThrew(variant, combinedOptions, tempOptionArray, g) ==
    IF Len(tempOptionArray) = 0 THEN "none"
    ELSE calculatePortfolioValueAtExpiration(UiEvaluator(variant),
             ArrayOf(AllOptions(combinedOptions, tempOptionArray, 1)),
             g.fullMinStrike, g.fullMaxStrike, g.fullStrikeIncrement).threw

\* from the range test to the end of the try block
ProcessRange(variant, json, combinedOptions, tempOptionArray, g) ==
    IF json.range.kind = "number" THEN Caught(g, "range")
    ELSE IF json.range.kind = "malformed" THEN Caught(g, "range")
    ELSE
      LET strikes == FiniteStrikes(combinedOptions) \cup FiniteStrikes(tempOptionArray)
          inferred == json.range.kind = "absent"
          g1 == IF inferred /\ strikes = {} THEN g
                ELSE IF inferred
                THEN [g EXCEPT !.fullMinStrike = MinOf(strikes) - RangeMargin * Dollar,
                               !.fullMaxStrike = MaxOf(strikes) + RangeMargin * Dollar]
                ELSE [g EXCEPT !.fullMinStrike = json.range.lo,
                               !.fullMaxStrike = json.range.hi]
          g2 == [g1 EXCEPT !.fullStrikeIncrement =
                    IF json.inc # 0 THEN json.inc ELSE DefaultIncrement * Dollar]
          data == calculatePortfolioValueAtExpiration(UiEvaluator(variant),
                      ArrayOf(combinedOptions),
                      g2.fullMinStrike, g2.fullMaxStrike, g2.fullStrikeIncrement)
          threw == IF data.threw # "none" THEN data.threw
                   ELSE CombinedDataThrew(variant, combinedOptions, tempOptionArray, g2)
      IN  IF inferred /\ strikes = {} THEN Caught(g1, "range")
          ELSE IF ~inferred /\ g1.fullMinStrike >= g1.fullMaxStrike
               THEN Caught(g1, "range")
          ELSE [error |-> threw, globals |-> g2, called |-> TRUE,
                legs |-> combinedOptions, data |-> data.curve]

\* processInput as a function of the parsed input and the globals before
\* the call: the error caught ("none" when none), the globals after it, and
\* the first call of the evaluator if it was reached
processInputOutcome(variant, json, g) ==
    IF ~json.parses THEN Caught(g, "json")
    ELSE IF json.optionArray.form \notin {"string", "array"}
         THEN Caught(g, "optionArray")
    ELSE
      LET c == CombineItems(variant, json.optionArray.items, 1, <<>>, 0)
          combinedOptions == FilterNonZero(c.optionMap)
          g1 == [g EXCEPT !.combinedOptionMap = combinedOptions,
                          !.fullOptionArray =
                              [k \in 1 .. Len(json.optionArray.items) |->
                                  FullOptionEntry(variant, json.optionArray.items[k])]]
          g2 == [g1 EXCEPT !.fullCost = json.cost + c.totalCostAdjustment]
      IN  IF c.threw THEN Caught(g, "option")
          ELSE IF Len(combinedOptions) = 0 THEN Caught(g, "novalid")
          ELSE IF TempThrows(variant, json.tempOptionArray) THEN Caught(g1, "option")
          ELSE ProcessRange(variant, json, combinedOptions,
                            TempOptions(variant, json.tempOptionArray), g2)

----------------------------------------------------------------------------
(* Inputs of processInput *)

OptionString(q, t, s) == [kind |-> "option", qty |-> q, type |-> t, strike |-> s]

OptionStringAt(q, t, s, a) ==
    [kind |-> "option", qty |-> q, type |-> t, strike |-> s, costAdjustment |-> a]

CostString(a) == [kind |-> "adj", costAdjustment |-> a]

StringItems ==
    { OptionString(1, "c", 100 * Dollar),
      OptionString(-1, "c", 100 * Dollar),
      OptionString(2, "P", 110 * Dollar),
      OptionString(0, "c", 100 * Dollar),
      OptionStringAt(1, "p", 110 * Dollar, 2 * Dollar),
      CostString(5 * Dollar),
      [kind |-> "malformed"] }

ObjectItems ==
    { [kind |-> "object", type |-> "c", strike |-> 100 * Dollar, qty |-> 0],
      [kind |-> "object", type |-> "p", strike |-> 110 * Dollar],
      [kind |-> "object", type |-> "x", strike |-> 100 * Dollar, qty |-> 1],
      [kind |-> "other"] }

NoRange == [kind |-> "absent"]

Ranges ==
    { NoRange,
      [kind |-> "string", lo |-> 90 * Dollar, hi |-> 120 * Dollar],
      [kind |-> "string", lo |-> 120 * Dollar, hi |-> 90 * Dollar],
      [kind |-> "malformed"],
      [kind |-> "number"] }

\* every list of up to MaxEntries items, as a string and as an array, with
\* the range, the increment and the cost left out
ItemFamily ==
    [parses : {TRUE},
     optionArray : {[form |-> "string", items |-> L] :
                        L \in SeqsUpTo(StringItems, MaxEntries)}
                   \cup {[form |-> "array", items |-> L] :
                        L \in SeqsUpTo(StringItems \cup ObjectItems, MaxEntries)},
     tempOptionArray : {<<>>},
     cost : {0},
     range : {NoRange},
     inc : {0}]

\* every range, increment, cost and temporary list, for two lists of options
SettingsFamily ==
    [parses : {TRUE},
     optionArray : {[form |-> "string", items |-> <<OptionString(1, "c", 100 * Dollar)>>],
                    [form |-> "array",
                     items |-> <<OptionString(1, "c", 100 * Dollar),
                                 OptionString(2, "P", 110 * Dollar)>>],
                    [form |-> "other", items |-> <<>>]},
     tempOptionArray : {<<>>,
                        <<OptionString(-1, "c", 100 * Dollar)>>,
                        <<OptionString(1, "p", 90 * Dollar)>>,
                        <<CostString(5 * Dollar)>>,
                        <<[kind |-> "malformed"]>>},
     cost : {0, 20 * Dollar},
     range : Ranges,
     inc : {0, 5 * Dollar, -5 * Dollar}]

UiInputs == ItemFamily \cup SettingsFamily \cup {UnparseableJSON}

\* the inputs of a call that follows a successful one: three option lists
\* with another cost, each as it is, with a range the call rejects and with
\* an increment the evaluator rejects, and a text that does not parse
LaterInputs ==
    {json \in SettingsFamily :
        /\ json.cost # 0
        /\ json.tempOptionArray = <<>>
        /\ \/ json.range = NoRange /\ json.inc <= 0
           \/ json.range = [kind |-> "malformed"] /\ json.inc = 0}
        \cup {UnparseableJSON}

UiImpls == {"part_000", "part_001"}

InitUi ==
    /\ pc = "ui_idle"
    /\ impl \in UiImpls
    /\ UiIdle
    /\ LiveIdle
    /\ EvaluatorIdle
    /\ AnalyzerIdle

\* the handler of the Process button, the whole try/catch
ProcessInput ==
    /\ pc \in {"ui_idle", "pi_done"}
    /\ \E json \in (IF pc = "ui_idle" THEN UiInputs ELSE LaterInputs) :
          \E r \in {processInputOutcome(impl, json, Globals)} :
              /\ processedJSON' = json
              /\ fullOptionArray' = r.globals.fullOptionArray
              /\ combinedOptionMap' = r.globals.combinedOptionMap
              /\ fullCost' = r.globals.fullCost
              /\ fullMinStrike' = r.globals.fullMinStrike
              /\ fullMaxStrike' = r.globals.fullMaxStrike
              /\ fullStrikeIncrement' = r.globals.fullStrikeIncrement
              /\ error' = r.error
              /\ pc' = IF r.error = "none" THEN "pi_done" ELSE "pi_error"
              /\ IF r.called
                 THEN /\ optionsPositions' = ArrayOf(r.legs)
                      /\ minPrice' = r.globals.fullMinStrike
                      /\ maxPrice' = r.globals.fullMaxStrike
                      /\ priceStep' = r.globals.fullStrikeIncrement
                      /\ valueCurve' = r.data
                 ELSE UNCHANGED <<optionsPositions, minPrice, maxPrice,
                                  priceStep, valueCurve>>
    /\ UNCHANGED <<impl, closingPrice>>
    /\ UNCHANGED anVars
    /\ UNCHANGED liveVars

----------------------------------------------------------------------------
(* updateChartWithSlider (part_000:75, part_001:10) *)

\* fullOptionArray.slice(0, count)
VisibleOptions(count) == SubSeq(fullOptionArray, 1, count)

\* part_000: "Only process real options, not standalone cost adjustments";
\* part_001 takes every entry
SliderTakes(variant, option) ==
    variant = "part_001" \/ (Truthy(option.type) /\ option.strike # NullStrike)

\* the forEach over visibleOptions that fills visibleCombinedMap
RECURSIVE VisibleCombined(_, _, _, _)
VisibleCombined(variant, visibleOptions, k, visibleCombinedMap) ==
    IF k > Len(visibleOptions) THEN visibleCombinedMap
    ELSE VisibleCombined(variant, visibleOptions, k + 1,
             IF SliderTakes(variant, visibleOptions[k])
             THEN AddToMap(visibleCombinedMap, visibleOptions[k])
             ELSE visibleCombinedMap)

\* the positions of the slider: 1 .. fullOptionArray.length
SliderPositions == 1 .. Len(fullOptionArray)

\* the handler of the slider, with the slider at count; an error of the
\* evaluator leaves the handler uncaught.  The handler reads the globals
\* and leaves them as they are, so a move of the slider after another one
\* repeats a call made from the state processInput left.
UpdateChartWithSlider ==
    /\ pc \in {"pi_done", "pi_error"}
    /\ \E count \in SliderPositions :
          \E visibleCombinedOptions \in
                  {VisibleCombined(impl, VisibleOptions(count), 1, <<>>)} :
          \E data \in {calculatePortfolioValueAtExpiration(UiEvaluator(impl),
                          ArrayOf(visibleCombinedOptions),
                          fullMinStrike, fullMaxStrike, fullStrikeIncrement)} :
              /\ optionsPositions' = ArrayOf(visibleCombinedOptions)
              /\ minPrice' = fullMinStrike
              /\ maxPrice' = fullMaxStrike
              /\ priceStep' = fullStrikeIncrement
              /\ valueCurve' = data.curve
              /\ error' = data.threw
              /\ pc' = IF data.threw = "none" THEN "sl_done" ELSE "sl_error"
    /\ UNCHANGED <<impl, closingPrice>>
    /\ UNCHANGED anVars
    /\ UNCHANGED uiVars
    /\ UNCHANGED liveVars

----------------------------------------------------------------------------
(* The live-data switch (part_000:346-384).  setInterval returns a fresh   *)
(* positive id and enters it in the browser's timers; clearInterval        *)
(* removes an id from them.                                                *)

LiveState ==
    [liveDataInterval |-> liveDataInterval, timers |-> timers,
     nextTimerId |-> nextTimerId]

startLiveDataUpdatesKeepingOld(st) ==
    [liveDataInterval |-> st.nextTimerId,
     timers |-> st.timers \cup {st.nextTimerId},
     nextTimerId |-> st.nextTimerId + 1]

\* if (liveDataInterval) clearInterval(liveDataInterval);
\* liveDataInterval = setInterval(..., 5000)
startLiveDataUpdates(st) ==
    [liveDataInterval |-> st.nextTimerId,
     timers |-> (IF st.liveDataInterval # NoTimer
                 THEN st.timers \ {st.liveDataInterval} ELSE st.timers)
                    \cup {st.nextTimerId},
     nextTimerId |-> st.nextTimerId + 1]

\* if (liveDataInterval) { clearInterval(liveDataInterval); liveDataInterval = null; }
stopLiveDataUpdates(st) ==
    IF st.liveDataInterval # NoTimer
    THEN [st EXCEPT !.timers = @ \ {st.liveDataInterval},
                    !.liveDataInterval = NoTimer]
    ELSE st

\* liveDataEnabled && currentSymbol
StartsOnToggle(enabled) == enabled /\ currentSymbol # ""

\* currentSymbol is '' in these sources and is assigned by none of them; a
\* page that sets it is covered by the second value
Symbols == {"", "SPY"}

InitLive ==
    /\ pc = "live"
    /\ impl = "part_000"
    /\ liveDataEnabled = FALSE
    /\ currentSymbol \in Symbols
    /\ liveDataInterval = NoTimer
    /\ timers = {}
    /\ nextTimerId = 1
    /\ EvaluatorIdle
    /\ AnalyzerIdle
    /\ UiIdle

SetLiveState(st) ==
    /\ liveDataInterval' = st.liveDataInterval
    /\ timers' = st.timers
    /\ nextTimerId' = st.nextTimerId

\* setInterval has ids left to give
TimerIdsLeft == nextTimerId <= MaxTimers

toggleLiveData ==
    /\ pc = "live"
    /\ liveDataEnabled' = ~liveDataEnabled
    /\ IF StartsOnToggle(~liveDataEnabled)
       THEN TimerIdsLeft /\ SetLiveState(startLiveDataUpdates(LiveState))
       ELSE SetLiveState(stopLiveDataUpdates(LiveState))
    /\ UNCHANGED <<pc, impl, currentSymbol>>
    /\ UNCHANGED evalVars
    /\ UNCHANGED anVars
    /\ UNCHANGED uiVars

\* a call of startLiveDataUpdates by itself
StartLiveDataUpdates ==
    /\ pc = "live"
    /\ TimerIdsLeft
    /\ SetLiveState(startLiveDataUpdates(LiveState))
    /\ UNCHANGED <<pc, impl, liveDataEnabled, currentSymbol>>
    /\ UNCHANGED evalVars
    /\ UNCHANGED anVars
    /\ UNCHANGED uiVars

\* a call of stopLiveDataUpdates by itself
StopLiveDataUpdates ==
    /\ pc = "live"
    /\ SetLiveState(stopLiveDataUpdates(LiveState))
    /\ UNCHANGED <<pc, impl, liveDataEnabled, currentSymbol>>
    /\ UNCHANGED evalVars
    /\ UNCHANGED anVars
    /\ UNCHANGED uiVars

----------------------------------------------------------------------------

Init == InitEvaluator \/ InitAnalyzer \/ InitUi \/ InitLive

Next ==
    \/ EvalEnter \/ ChartEvalIter \/ OcEvalIter \/ EvalReturn
    \/ ChartAnEnter \/ ChartAnIter \/ ChartAnFinish
    \/ P0AnEnter \/ P0CrossIter \/ P0CrossExit \/ P0TrendIter \/ P0SortReturn
    \/ ProcessInput \/ UpdateChartWithSlider
    \/ toggleLiveData \/ StartLiveDataUpdates \/ StopLiveDataUpdates

Spec == Init /\ [][Next]_vars

----------------------------------------------------------------------------
(* Vocabulary of the properties *)

EvaluatorCalled == pc \in {"eval_call", "eval_loop", "eval_done", "eval_error"}

LegIsValid(leg) == leg.type \in {"c", "p"} /\ leg.strike > 0 /\ leg.qty # 0

AllLegsValid(legs) == \A k \in 1 .. Len(legs) : LegIsValid(legs[k])

ValidCall ==
    /\ optionsPositions.isArray
    /\ Len(optionsPositions.items) > 0
    /\ AllLegsValid(optionsPositions.items)
    /\ minPrice < maxPrice
    /\ priceStep > 0

\* the k-th swept price, k = 1 for the first point
SweptPrice(k) == minPrice + (k - 1) * priceStep

StrictlyIncreasingPrices(c) ==
    \A k \in 1 .. Len(c) - 1 : c[k].closingPrice < c[k + 1].closingPrice

NonDecreasingPrices(c) ==
    \A k \in 1 .. Len(c) - 1 : c[k].closingPrice <= c[k + 1].closingPrice

SweepCount == (maxPrice - minPrice) \div priceStep + 1

\* the payoff the data model prescribes for one leg at price P, with the
\* leg's own multiplier
OwnMultiplier(leg) ==
    IF "contractMultiplier" \in DOMAIN leg THEN leg.contractMultiplier ELSE 100

PrescribedContribution(leg, P) ==
    IF leg.type = "c" THEN
        (IF P > leg.strike THEN P - leg.strike ELSE 0) * OwnMultiplier(leg) * leg.qty
    ELSE IF leg.type = "p" THEN
        (IF leg.strike > P THEN leg.strike - P ELSE 0) * OwnMultiplier(leg) * leg.qty
    ELSE 0

RECURSIVE PrescribedTotal(_, _)
PrescribedTotal(legs, P) ==
    IF Len(legs) = 0 THEN 0
    ELSE PrescribedContribution(legs[1], P) + PrescribedTotal(Tail(legs), P)

IsCentRounding(r, x) == r % SubCent = 0 /\ 2 * Abs(r - x) <= SubCent

----------------------------------------------------------------------------
(* C1 *)

----------------------------------------------------------------------------
(* C2 *)

\* C2 (as claimed): at every swept price P the returned totalIntrinsicValue
\* equals the sum over the legs of max(0, P - strike) * multiplier * quantity
\* for calls and max(0, strike - P) * multiplier * quantity for puts.
C2_AsClaimed ==
    pc = "eval_done" =>
        \A k \in 1 .. Len(valueCurve) :
            valueCurve[k].totalIntrinsicValue =
                PrescribedTotal(optionsPositions.items, SweptPrice(k))

----------------------------------------------------------------------------
(* C3 *)

\* C3 (as claimed): a leg list containing a leg of a foreign type, with a
\* non-positive strike or with zero quantity is rejected: no curve is
\* returned and no point is computed for it.
C3_AsClaimed ==
    (EvaluatorCalled /\ optionsPositions.isArray
        /\ ~AllLegsValid(optionsPositions.items)) =>
        (pc # "eval_done" /\ valueCurve = <<>>)

----------------------------------------------------------------------------
(* C4 *)

\* C4: when the leg list is empty or not a list, or minPrice >= maxPrice, or
\* priceStep <= 0, the call ends in an error and no curve is produced.
C4_PreconditionsRejected ==
    (/\ EvaluatorCalled
     /\ \/ ~optionsPositions.isArray
        \/ Len(optionsPositions.items) = 0
        \/ minPrice >= maxPrice
        \/ priceStep <= 0) =>
        \/ pc = "eval_call"
        \/ (pc = "eval_error" /\ error \in {"positions", "range", "step"}
                               /\ valueCurve = <<>>)

C4_Witness ==
    /\ pc = "eval_error"
    /\ error = "range"
    /\ minPrice = maxPrice
    /\ Len(optionsPositions.items) > 0
    /\ priceStep > 0

----------------------------------------------------------------------------
(* C8 *)

\* C8 (as claimed): every leg contributes intrinsicPerShare * its own
\* contractMultiplier * quantity (100 only when it has none), so the
\* returned value at each swept price is that sum, rounded to the cent.
C8_AsClaimed ==
    pc = "eval_done" =>
        \A k \in 1 .. Len(valueCurve) :
            IsCentRounding(valueCurve[k].totalIntrinsicValue,
                           PrescribedTotal(optionsPositions.items, SweptPrice(k)))

----------------------------------------------------------------------------
(* C9 *)

----------------------------------------------------------------------------
(* C10 *)

SameKey(a, b) ==
    /\ a.type = b.type
    /\ a.strike = b.strike
    /\ DOMAIN a = DOMAIN b
    /\ OwnMultiplier(a) = OwnMultiplier(b)

\* legs a < b of the list replaced by one leg with the summed quantity
MergeLegs(legs, a, b) ==
    [k \in 1 .. Len(legs) - 1 |->
        IF k = a THEN [legs[a] EXCEPT !.qty = legs[a].qty + legs[b].qty]
        ELSE IF k < b THEN legs[k] ELSE legs[k + 1]]

DuplicatePairs(legs) ==
    {ab \in (1 .. Len(legs)) \X (1 .. Len(legs)) :
        /\ ab[1] < ab[2]
        /\ LegIsValid(legs[ab[1]])
        /\ LegIsValid(legs[ab[2]])
        /\ SameKey(legs[ab[1]], legs[ab[2]])
        /\ legs[ab[1]].qty + legs[ab[2]].qty # 0}

\* C10: legs with the same (type, strike) combine additively: the call on a
\* list with two such legs ends exactly as the call on the list in which
\* the two are replaced by one leg with their (nonzero) summed quantity,
\* and a list of valid legs never errors because of duplicates.
C10_DuplicatesAdditive ==
    (pc \in {"eval_done", "eval_error"} /\ optionsPositions.isArray) =>
        /\ \A ab \in DuplicatePairs(optionsPositions.items) :
              calculatePortfolioValueAtExpiration(impl,
                  ArrayOf(MergeLegs(optionsPositions.items, ab[1], ab[2])),
                  minPrice, maxPrice, priceStep)
              = [threw |-> error,
                 curve |-> IF pc = "eval_done" THEN valueCurve ELSE <<>>]
        /\ ValidCall => pc = "eval_done"

C10_Witness ==
    /\ pc = "eval_done"
    /\ \E ab \in DuplicatePairs(optionsPositions.items) :
          optionsPositions.items[ab[1]].qty * optionsPositions.items[ab[2]].qty < 0
    /\ \E k \in 1 .. Len(valueCurve) : valueCurve[k].totalIntrinsicValue # 0

----------------------------------------------------------------------------
(* Vocabulary of the analyzer properties *)

KeyPointsOfType(t) == {k \in 1 .. Len(keyPoints) : keyPoints[k].type = t}

KeyPointsOn(t, point) ==
    {k \in KeyPointsOfType(t) :
        /\ keyPoints[k].closingPrice = FromInt(point.closingPrice)
        /\ keyPoints[k].totalIntrinsicValue = point.totalIntrinsicValue}

StrictlyIncreasingValues(c) ==
    \A k \in 1 .. Len(c) - 1 : c[k].totalIntrinsicValue < c[k + 1].totalIntrinsicValue

AllValuesEqual(c) ==
    \A k \in 1 .. Len(c) : c[k].totalIntrinsicValue = c[1].totalIntrinsicValue

----------------------------------------------------------------------------
(* C5 *)

\* C5 (as claimed): for the curve [(90,0),(100,0),(110,1000)] and cost 500
\* the analyzer returns a ZeroCrossing for the segment (100,0)-(110,1000),
\* with closingPrice 105.
C5_AsClaimed ==
    (pc = "an_done" /\ curve = ExampleCurve /\ cost = ExampleCost) =>
        \E k \in KeyPointsOfType("zero_crossing") :
            keyPoints[k].closingPrice = FromInt(105)

----------------------------------------------------------------------------
(* C6 *)

\* C6 (as claimed): a strictly increasing curve of length >= 3 yields no
\* LowPoint and no HighPoint, exactly one CurveEndpoint at the first point
\* and exactly one CurveEndpoint at the last point.
C6_AsClaimed ==
    (pc = "an_done" /\ Len(curve) >= 3 /\ StrictlyIncreasingValues(curve)) =>
        /\ KeyPointsOfType("low_point") = {}
        /\ KeyPointsOfType("high_point") = {}
        /\ Cardinality(KeyPointsOn("curve_endpoint", curve[1])) = 1
        /\ Cardinality(KeyPointsOn("curve_endpoint", curve[Len(curve)])) = 1
        /\ Cardinality(KeyPointsOfType("curve_endpoint")) = 2

----------------------------------------------------------------------------
(* C7 *)

\* C7: a curve of length >= 3 whose values are all equal yields no key
\* point at all, for every cost, also when the flat value equals the cost.
C7_FlatCurveNoKeyPoints ==
    (pc = "an_done" /\ Len(curve) >= 3 /\ AllValuesEqual(curve)) =>
        keyPoints = <<>>

C7_Witness ==
    /\ pc = "an_done"
    /\ Len(curve) >= 3
    /\ AllValuesEqual(curve)
    /\ curve[1].totalIntrinsicValue = cost
    /\ i > 0

----------------------------------------------------------------------------
(* C11 *)

\* C11: a call that fails hands the caller only the error: whenever the
\* evaluator has thrown, on a precondition or on a leg that fails validation
\* during the sweep, no ValuePoint has been produced.
C11_ErrorBeforeFirstPoint ==
    (EvaluatorCalled /\ (pc = "eval_error" \/ error # "none")) =>
        /\ pc = "eval_error"
        /\ error # "none"
        /\ valueCurve = <<>>

\* a valid leg followed by an invalid one, on a sweep of several prices
C11_Witness ==
    /\ pc = "eval_error"
    /\ error \in {"type", "strikeqty"}
    /\ Len(optionsPositions.items) = 2
    /\ LegIsValid(optionsPositions.items[1])
    /\ ~LegIsValid(optionsPositions.items[2])
    /\ minPrice + priceStep <= maxPrice

----------------------------------------------------------------------------
(* C12 *)

\* C12: for a curve of fewer than 3 points the analyzer returns the empty
\* key-point list straight from its entry check, without an error, whatever
\* the cost, also when the two points of a length-2 curve differ or
\* straddle the cost.
C12_ShortCurveEmpty ==
    (pc \in {"an_call", "an_cross", "an_trend", "an_walk", "an_done"}
        /\ Len(curve) < 3) =>
        /\ pc \in {"an_call", "an_done"}
        /\ keyPoints = <<>>
        /\ error = "none"

C12_Witness ==
    /\ pc = "an_done"
    /\ Len(curve) = 2
    /\ curve[1].totalIntrinsicValue < cost
    /\ cost < curve[2].totalIntrinsicValue

----------------------------------------------------------------------------
(* C13 *)

SortedByClosingPrice(kps) ==
    \A k \in 1 .. Len(kps) - 1 :
        ~RatLess(kps[k + 1].closingPrice, kps[k].closingPrice)

PointsPricedAt(kps, price) == SelectSeq(kps, LAMBDA kp : kp.closingPrice = price)

IsPrefix(a, b) == Len(a) <= Len(b) /\ SubSeq(b, 1, Len(a)) = a

AnalyzerReturns == pc # "an_done" /\ pc' = "an_done"

\* C13: the list the analyzer returns is in non-decreasing closingPrice
\* order, and the key points of one closingPrice stand in it in the order
\* in which they were emitted: the returning step keeps, price by price,
\* the order of the points emitted before it.
C13_OrderedByPrice ==
    [][AnalyzerReturns =>
        /\ SortedByClosingPrice(keyPoints')
        /\ Len(keyPoints') >= Len(keyPoints)
        /\ \A k \in 1 .. Len(keyPoints) :
              IsPrefix(PointsPricedAt(keyPoints, keyPoints[k].closingPrice),
                       PointsPricedAt(keyPoints', keyPoints[k].closingPrice))]_vars

\* the sort has moved a point, and two different points share a price
C13_Witness ==
    /\ pc = "an_done"
    /\ impl = "part_000"
    /\ \E j, k \in 1 .. Len(keyPoints) :
          /\ j < k
          /\ keyPoints[j].closingPrice = keyPoints[k].closingPrice
          /\ keyPoints[j].type # keyPoints[k].type
    /\ \E k \in 1 .. Len(keyPoints) - 1 :
          /\ keyPoints[k].type # "zero_crossing"
          /\ keyPoints[k + 1].type = "zero_crossing"

----------------------------------------------------------------------------
(* C14 *)

\* C14 (as claimed): the analyzer never returns two key points that have
\* both the same kind and the same closingPrice.
C14_AsClaimed ==
    pc = "an_done" =>
        \A j, k \in 1 .. Len(keyPoints) :
            (j < k /\ keyPoints[j].type = keyPoints[k].type) =>
                keyPoints[j].closingPrice # keyPoints[k].closingPrice

----------------------------------------------------------------------------
(* C17 *)

TrendKinds == {"low_point", "high_point", "curve_endpoint"}

TrendPointsOf(kps) == SelectSeq(kps, LAMBDA kp : kp.type \in TrendKinds)

OtherCosts == -1 .. MaxValue + 1

----------------------------------------------------------------------------
(* C18 *)

\* a call of the evaluator or of the analyzer is running
CoreCallRunning ==
    pc \in {"eval_call", "eval_loop", "an_call", "an_walk", "an_cross", "an_trend"}

\* the number of steps a call may still take: for the sweep
\* floor((maxPrice - minPrice) / priceStep) + 1 iterations less those made,
\* and the return; for the analyzer the iterations its loops have left,
\* and the steps between and after them
StepsLeft ==
    CASE pc = "eval_call" ->
            IF PositionsInvalid(optionsPositions) \/ RangeInvalid(minPrice, maxPrice)
                  \/ StepInvalid(priceStep)
            THEN 1 ELSE SweepCount + 2
      [] pc = "eval_loop" -> SweepCount - Len(valueCurve) + 1
      [] pc = "an_call" -> 2 * Len(curve) + 1
      [] pc = "an_walk" -> Len(curve) - i
      [] pc = "an_cross" -> (Len(curve) - 1 - i) + 1 + Len(curve)
      [] pc = "an_trend" -> Len(curve) - i + 1
      [] OTHER -> 0

----------------------------------------------------------------------------
(* C20 *)

\* the points a .. b of the curve form a flat run that starts after a
\* non-flat step and ends before a non-flat step
FlatRunThenStep(a, b) ==
    /\ 2 <= a /\ a < b /\ b + 1 <= Len(curve)
    /\ curve[a - 1].totalIntrinsicValue # curve[a].totalIntrinsicValue
    /\ \A k \in a .. b : curve[k].totalIntrinsicValue = curve[a].totalIntrinsicValue
    /\ curve[b + 1].totalIntrinsicValue # curve[b].totalIntrinsicValue

KindAfterFlat(b) ==
    IF curve[b + 1].totalIntrinsicValue > curve[b].totalIntrinsicValue
    THEN "low_point" ELSE "high_point"

\* C20 (as claimed): when a flat run that follows a non-flat step is
\* followed by an Up (resp. Down) step, the returned list has a LowPoint
\* (resp. HighPoint) at the first point of the flat run, the
\* lastNonFlatPoint, and none at its last point.
C20_AsClaimed ==
    pc = "an_done" =>
        \A a, b \in 1 .. Len(curve) :
            FlatRunThenStep(a, b) =>
                /\ KeyPointsOn(KindAfterFlat(b), curve[a]) # {}
                /\ KeyPointsOn(KindAfterFlat(b), curve[b]) = {}

----------------------------------------------------------------------------
(* C19 *)

\* the items of optionArray that are option legs with the key of the leg,
\* and the sum of their quantities as entered (1 when an object has none)
InputLegsOf(leg) ==
    LET items == processedJSON.optionArray.items
    IN  {k \in 1 .. Len(items) :
            /\ items[k].kind \in {"option", "object"}
            /\ toLowerCase(items[k].type) = leg.type
            /\ items[k].strike = leg.strike}

\* the quantity an item states: its qty, 1 for an object without one
QtyAsEntered(item) == IF "qty" \in DOMAIN item THEN item.qty ELSE 1

RECURSIVE SumOfQty(_, _)
SumOfQty(items, S) ==
    IF S = {} THEN 0
    ELSE LET k == CHOOSE x \in S : TRUE
         IN  QtyAsEntered(items[k]) + SumOfQty(items, S \ {k})

\* C19 (as claimed): after a successful processInput the leg list handed to
\* the evaluator has at most one leg per (type, strike), every leg is a
\* call or a put with a nonzero quantity equal to the sum of the quantities
\* of the input legs with its key; keys that sum to zero and standalone
\* cost adjustments are absent.
C19_AsClaimed ==
    pc = "pi_done" =>
        LET legs == optionsPositions.items
        IN  /\ \A j, k \in 1 .. Len(legs) :
                  j < k => ~SameOptionKey(legs[j], legs[k])
            /\ \A k \in 1 .. Len(legs) :
                  /\ legs[k].type \in {"c", "p"}
                  /\ legs[k].qty # 0
                  /\ legs[k].qty = SumOfQty(processedJSON.optionArray.items,
                                            InputLegsOf(legs[k]))

----------------------------------------------------------------------------
(* C16 *)

----------------------------------------------------------------------------
(* Vocabulary of the segment properties: the segment s joins curve[s] and  *)
(* curve[s + 1], the source's valueCurve[s - 1] and valueCurve[s]          *)

Segments == 1 .. Len(curve) - 1

ProfitLoss(k) == curve[k].totalIntrinsicValue - cost

\* unequal profit/loss values that have strictly opposite signs or of which
\* one is exactly zero
SignChanges(s) ==
    /\ ProfitLoss(s) # ProfitLoss(s + 1)
    /\ \/ (ProfitLoss(s) < 0 /\ ProfitLoss(s + 1) > 0)
       \/ (ProfitLoss(s) > 0 /\ ProfitLoss(s + 1) < 0)
       \/ ProfitLoss(s) = 0
       \/ ProfitLoss(s + 1) = 0

\* P(s) <= price <= P(s + 1)
PriceWithin(price, s) ==
    /\ ~RatLess(price, FromInt(curve[s].closingPrice))
    /\ ~RatLess(FromInt(curve[s + 1].closingPrice), price)

\* P(i-1) + (P(i) - P(i-1)) * |profitLoss(i-1)| / |profitLoss(i) - profitLoss(i-1)|
InterpolatedPrice(s) ==
    LET d == Abs(ProfitLoss(s + 1) - ProfitLoss(s))
    IN  Rat(curve[s].closingPrice * d
              + (curve[s + 1].closingPrice - curve[s].closingPrice) * Abs(ProfitLoss(s)),
            d)

\* the direction of the step over segment s
StepKind(s) ==
    IF curve[s + 1].totalIntrinsicValue > curve[s].totalIntrinsicValue THEN "up"
    ELSE IF curve[s + 1].totalIntrinsicValue < curve[s].totalIntrinsicValue THEN "down"
    ELSE "flat"

\* the direction of the nearest non-flat step that ends at or before
\* curve[j], and of the nearest one that starts at or after it
KindBefore(j) ==
    LET S == {s \in 1 .. j - 1 : StepKind(s) # "flat"}
    IN  IF S = {} THEN "none" ELSE StepKind(MaxOf(S))

KindAfter(j) ==
    LET S == {s \in j .. Len(curve) - 1 : StepKind(s) # "flat"}
    IN  IF S = {} THEN "none" ELSE StepKind(MinOf(S))

InteriorPoints == 2 .. Len(curve) - 1

----------------------------------------------------------------------------
(* C21 *)

\* C21 (as claimed): for every segment of the curve, the first and the last
\* included, whose profit/loss values are unequal and have strictly opposite
\* signs or one of which is zero, the returned list has a ZeroCrossing for
\* that segment, that is one priced within the segment.
C21_AsClaimed ==
    (pc = "an_done" /\ Len(curve) >= 3) =>
        \A s \in Segments :
            SignChanges(s) =>
                \E k \in KeyPointsOfType("zero_crossing") :
                    PriceWithin(keyPoints[k].closingPrice, s)

----------------------------------------------------------------------------
(* C22 *)

\* C22 (as claimed): every ZeroCrossing returned is priced at
\* P(i-1) + (P(i) - P(i-1)) * |profitLoss(i-1)| / |profitLoss(i) - profitLoss(i-1)|
\* for a segment (i-1, i) whose profit/loss values change sign, and a
\* segment with equal profit/loss values yields none.
C22_AsClaimed ==
    pc = "an_done" =>
        \A k \in KeyPointsOfType("zero_crossing") :
            \E s \in Segments :
                /\ SignChanges(s)
                /\ keyPoints[k].closingPrice = InterpolatedPrice(s)

----------------------------------------------------------------------------
(* C23 *)

\* C23 (as claimed): for a curve of length >= 3 the returned list has a
\* CurveEndpoint at curve[0] exactly when the values of curve[0] and
\* curve[1] differ, one at curve[last] exactly when the values of
\* curve[last] and curve[last-1] differ, and no CurveEndpoint anywhere else.
C23_AsClaimed ==
    (pc = "an_done" /\ Len(curve) >= 3) =>
        /\ KeyPointsOn("curve_endpoint", curve[1]) # {}
              <=> StepKind(1) # "flat"
        /\ KeyPointsOn("curve_endpoint", curve[Len(curve)]) # {}
              <=> StepKind(Len(curve) - 1) # "flat"
        /\ KeyPointsOfType("curve_endpoint")
              = KeyPointsOn("curve_endpoint", curve[1])
                   \cup KeyPointsOn("curve_endpoint", curve[Len(curve)])

----------------------------------------------------------------------------
(* C24 *)

\* the key points an iteration has pushed, and those of one type among them
Pushed == SubSeq(keyPoints', Len(keyPoints) + 1, Len(keyPoints'))

PushedOfType(t) == SelectSeq(Pushed, LAMBDA kp : kp.type = t)

PushedExactly(t, point) ==
    /\ Len(PushedOfType(t)) = 1
    /\ PushedOfType(t)[1].closingPrice = FromInt(point.closingPrice)
    /\ PushedOfType(t)[1].totalIntrinsicValue = point.totalIntrinsicValue

\* an iteration of the walk of chart.js: the step taken is the segment i
ChartWalkStep == pc = "an_walk" /\ impl = "chart" /\ i' = i + 1

----------------------------------------------------------------------------
(* C25 *)

StrictPeak(j) ==
    /\ curve[j].totalIntrinsicValue > curve[j - 1].totalIntrinsicValue
    /\ curve[j].totalIntrinsicValue > curve[j + 1].totalIntrinsicValue

StrictTrough(j) ==
    /\ curve[j].totalIntrinsicValue < curve[j - 1].totalIntrinsicValue
    /\ curve[j].totalIntrinsicValue < curve[j + 1].totalIntrinsicValue

\* C25 (as claimed): every interior point, the second-to-last included, that
\* is strictly greater (smaller) than both its neighbours is returned as a
\* HighPoint (LowPoint).
C25_AsClaimed ==
    pc = "an_done" =>
        \A j \in InteriorPoints :
            /\ StrictPeak(j) => KeyPointsOn("high_point", curve[j]) # {}
            /\ StrictTrough(j) => KeyPointsOn("low_point", curve[j]) # {}

----------------------------------------------------------------------------
(* C26 *)

\* C26 (as claimed): a HighPoint at an interior point has an Up step as the
\* nearest non-flat step before it and a Down step as the nearest after it,
\* a LowPoint a Down step before and an Up step after.
C26_AsClaimed ==
    pc = "an_done" =>
        \A j \in InteriorPoints :
            /\ KeyPointsOn("high_point", curve[j]) # {}
                  => KindBefore(j) = "up" /\ KindAfter(j) = "down"
            /\ KeyPointsOn("low_point", curve[j]) # {}
                  => KindBefore(j) = "down" /\ KindAfter(j) = "up"

----------------------------------------------------------------------------
(* C27 *)

AnalyzerCalled == pc \in {"an_call", "an_walk", "an_cross", "an_trend", "an_done"}

\* the profit/loss values of the segment are not both strictly positive and
\* not both strictly negative
NotOneSided(s) ==
    /\ ~(ProfitLoss(s) > 0 /\ ProfitLoss(s + 1) > 0)
    /\ ~(ProfitLoss(s) < 0 /\ ProfitLoss(s + 1) < 0)

----------------------------------------------------------------------------
(* C30 *)

\* a call of toggleLiveData that leaves liveDataEnabled false
ToggledOff == liveDataEnabled /\ ~liveDataEnabled'

\* C30: across the calls of toggleLiveData, startLiveDataUpdates and
\* stopLiveDataUpdates at most one interval timer is active at any time,
\* and it is the one liveDataInterval holds; a toggleLiveData that leaves
\* liveDataEnabled false leaves no timer active and liveDataInterval null.
C30_OneLiveTimer ==
    /\ [](/\ Cardinality(timers) <= 1
          /\ timers = IF liveDataInterval = NoTimer THEN {} ELSE {liveDataInterval})
    /\ [][ToggledOff => (timers' = {} /\ liveDataInterval' = NoTimer)]_vars

\* live data is switched off while a timer runs that replaced an earlier one
C30_Witness ==
    /\ pc = "live"
    /\ ~liveDataEnabled
    /\ nextTimerId > 2
    /\ liveDataInterval # NoTimer
    /\ timers = {liveDataInterval}

----------------------------------------------------------------------------
(* C28 *)

\* a call of updateChartWithSlider that follows a successful processInput
SliderCallAfterSuccess == pc = "pi_done" /\ pc' \in {"sl_done", "sl_error"}

\* C28 (as claimed): after a processInput that succeeded, a call of
\* updateChartWithSlider with the slider at any position
\* 1 .. fullOptionArray.length ends without an error.
C28_AsClaimed ==
    [][SliderCallAfterSuccess => (pc' = "sl_done" /\ error' = "none")]_vars

----------------------------------------------------------------------------
(* C29 *)

\* a call of processInput that ends in its catch block
ProcessInputFails == pc \in {"ui_idle", "pi_done"} /\ pc' = "pi_error"

\* C29 (as claimed): a processInput that fails leaves fullOptionArray,
\* combinedOptionMap, fullCost, fullMinStrike, fullMaxStrike and
\* fullStrikeIncrement as they were before the call.
C29_AsClaimed ==
    [][ProcessInputFails => UNCHANGED globalVars]_vars

====
